---- MODULE Spec2Model ----
(***************************************************************************)
(* EarthGPT frontend: the session/message engine of hooks/useChat.ts as it *)
(* is driven by App.tsx (initial-session effect, new-chat / delete         *)
(* handlers), Sidebar ("Start with no sessions") and ChatInput (submit     *)
(* guard).                                                                 *)
(*                                                                         *)
(* React 18 scheduling: the state updates of one event handler or of one   *)
(* promise continuation (the code between two awaits, together with the    *)
(* continuations of callers that resume on the same resolved promise) are  *)
(* batched; the render and the effects whose dependencies changed follow   *)
(* before the next continuation runs.  Each action below is one such       *)
(* continuation followed by its render and effects (Commit).  A pending    *)
(* remote call is an entry of ops that holds the values its closure        *)
(* captured at dispatch.                                                   *)
(***************************************************************************)
EXTENDS Integers, Sequences, FiniteSets, TLC

(* ----------------------------- bounds --------------------------------- *)
MaxEvents == 3

(* ------------------------- program constants -------------------------- *)
TitleMax == 50
NotFoundStatus == 404

(* ------------------------------ strings ------------------------------- *)
\* Strings are sequences of characters so that length and substring are computed.
Chars(n, c) == [i \in 1..n |-> c]
NewChat == <<"N", "e", "w", " ", "C", "h", "a", "t">>
SessionNotFoundDetail == <<"S", "e", "s", "s", "i", "o", "n", " ", "n", "o", "t", " ", "f", "o", "u", "n", "d">>
OtherDetail == <<"I", "n", "t", "e", "r", "n", "a", "l">>
Ellipsis == <<".", ".", ".">>
EmptyString == << >>
ShortContent == <<"h", "i">>
ExactContent == Chars(TitleMax, "b")
LongContent == Chars(TitleMax + 1, "c")
\* the two sides of the title limit
Contents == {ExactContent, LongContent}
ReplyText == <<"o", "k">>
SolarTitle == <<"S", "o", "l", "a", "r">>

\* String.prototype.substring(0, n)
Substring0(s, n) == SubSeq(s, 1, IF n < Len(s) THEN n ELSE Len(s))

(* ------------------------- values and sentinels ----------------------- *)
Null == [null |-> TRUE]
\* ids are opaque strings: "<n>" of the seeded rows, "new-<n>" assigned by
\* POST /auth/sessions, `session-${Date.now()}` of the local fallback
SrvId(n) == [src |-> "srv", n |-> n]
NewId(n) == [src |-> "new", n |-> n]
LocalId(t) == [src |-> "session-", n |-> t]
\* localStorage.getItem(...) === null
NoId == [src |-> "null", n |-> 0]

\* spread: {...base, ...over}
Spread(base, over) == over @@ base

(* --------------------------- remote answers --------------------------- *)
\* GET /auth/sessions rows (snake_case, as the backend returns them)
Row(id, title, la, mc) ==
    [id |-> id, title |-> title, created_at |-> 1, last_activity |-> la,
     is_active |-> TRUE, message_count |-> mc]
Row1 == Row(SrvId(1), EmptyString, 2, 0)
Row2 == Row(SrvId(2), SolarTitle, 3, 2)
Row3 == Row(SrvId(3), NewChat, 3, 0)
RemoteLists == { << >>, <<Row1>>, <<Row1, Row2, Row3>>, <<Row3, Row2, Row1>> }

Msg(role, content, ts) == [role |-> role, content |-> content, timestamp |-> ts]
HistoryMessages == <<Msg("user", ShortContent, 1), Msg("assistant", ReplyText, 2)>>
\* GET /auth/sessions/{id}/history bodies; has = FALSE is a body without messages
HistoryResponses ==
    { [has |-> FALSE, messages |-> << >>],
      [has |-> TRUE, messages |-> << >>],
      [has |-> TRUE, messages |-> HistoryMessages] }

\* POST /chat bodies
ChatResponses ==
    { [response |-> ReplyText, timestamp |-> 4, memory_used |-> TRUE,
       guardrail_triggered |-> FALSE, summarization_triggered |-> FALSE, has_count |-> FALSE, message_count |-> 0],
      [response |-> ReplyText, timestamp |-> 4, memory_used |-> TRUE,
       guardrail_triggered |-> TRUE, summarization_triggered |-> TRUE, has_count |-> TRUE, message_count |-> 7] }

\* axios errors: error.response.status and error.response.data.detail
SendErrors ==
    { [status |-> NotFoundStatus, detail |-> SessionNotFoundDetail],
      [status |-> NotFoundStatus, detail |-> OtherDetail],
      [status |-> 500, detail |-> SessionNotFoundDetail],
      [status |-> 500, detail |-> OtherDetail] }

(* ------------------------- persistent storage ------------------------- *)
\* localStorage values under 'earthgpt-sessions'
Absent == [kind |-> "absent", val |-> << >>]
Corrupt == [kind |-> "corrupt", val |-> << >>]

\* JSON.stringify drops the properties whose value is undefined; every
\* property the engine writes is defined, and an absent messageCount is an
\* absent field here.
JSONStringify(list) == [kind |-> "json", val |-> list]
JSONParseOk(item) == item.kind = "json"
JSONParse(item) == item.val

(* ------------------------------- state -------------------------------- *)
VARIABLES
    mounted,                    \* App (and with it useChat) is mounted
    isAuthenticated,            \* useAuth().isAuthenticated = !!user
    sessions,                   \* useState<ChatSession[]>
    currentSession,             \* useState<ChatSession | null>
    isLoading,                  \* useState(false)
    isLoadingSessions,          \* useState(true)
    sessionsLoadedRef,          \* useRef(false)
    hasAttemptedInitialSession, \* App: useRef(false)
    ls_sessions,                \* localStorage 'earthgpt-sessions'
    ls_currentId,               \* localStorage 'earthgpt-current-session-id'
    ls_noAuto,                  \* localStorage 'earthgpt-no-auto-session' === 'true'
    ops,                        \* pending remote calls with their closures
    now,                        \* Date.now(), advanced by every step that reads it
    created,                    \* sessions the backend has created so far
    fetchCount,                 \* getUserSessions calls issued by useChat in this lifetime
    autoCreateCount,            \* createNewSession calls of the initial-session effect
    authRises, authFalls,       \* changes of isAuthenticated in this lifetime
    events,                     \* bounded count of authentication changes and user actions
    last                        \* what the last step did

vars == <<mounted, isAuthenticated, sessions, currentSession, isLoading,
          isLoadingSessions, sessionsLoadedRef, hasAttemptedInitialSession,
          ls_sessions, ls_currentId, ls_noAuto, ops, now, created, fetchCount,
          autoCreateCount, authRises, authFalls, events, last>>

authVars == <<isAuthenticated, authRises, authFalls>>

(* ------------------------- sequence helpers --------------------------- *)
RECURSIVE Filter(_, _)
\* Array.prototype.filter(s => s.id !== id)
Filter(list, id) ==
    IF list = << >> THEN << >>
    ELSE IF Head(list).id # id THEN <<Head(list)>> \o Filter(Tail(list), id)
         ELSE Filter(Tail(list), id)

RECURSIVE Find(_, _)
\* Array.prototype.find(s => s.id === id), Null for undefined
Find(list, id) ==
    IF list = << >> THEN Null
    ELSE IF Head(list).id = id THEN Head(list) ELSE Find(Tail(list), id)

\* mutant: the list entry is left as it is
MapReplace_Skip(list, id, repl) == list

\* Array.prototype.map(s => s.id === id ? repl : s)
MapReplace(list, id, repl) ==
    [k \in DOMAIN list |-> IF list[k].id = id THEN repl ELSE list[k]]

RemoveAt(seq, i) == SubSeq(seq, 1, i - 1) \o SubSeq(seq, i + 1, Len(seq))

\* Array.prototype.pop(), Null for undefined
Pop(arr) == IF arr = << >> THEN Null ELSE arr[Len(arr)]

\* Array.prototype.slice(0, -1)
SliceDropLast(msgs) == SubSeq(msgs, 1, Len(msgs) - 1)

\* every pending call but the one acting has seen another step run
Dirty(seq) == [k \in DOMAIN seq |-> [seq[k] EXCEPT !.clean = FALSE]]
DirtyBut(seq, i) == [k \in DOMAIN seq |-> IF k = i THEN seq[k] ELSE [seq[k] EXCEPT !.clean = FALSE]]

(* -------------------------- loadSessions ------------------------------ *)
\* backendSessions = authSessions.map(...)
MapRow(row) ==
    [id |-> row.id,
     title |-> IF row.title = EmptyString THEN NewChat ELSE row.title,
     messages |-> << >>,
     createdAt |-> row.created_at,
     lastActivity |-> row.last_activity,
     isActive |-> row.is_active,
     messageCount |-> row.message_count]
MapRows(rows) == [k \in DOMAIN rows |-> MapRow(rows[k])]

RECURSIVE Reduce(_, _)
Reduce(latest, rest) ==
    IF rest = << >> THEN latest
    ELSE Reduce(IF Head(rest).lastActivity > latest.lastActivity THEN Head(rest) ELSE latest,
                Tail(rest))
\* mutant: the first fetched session is taken
MostRecent_First(list) == Head(list)

\* backendSessions.reduce((latest, current) => current.lastActivity > latest.lastActivity ? current : latest)
MostRecent(list) == Reduce(Head(list), Tail(list))

\* mutant: the persisted id is ignored
PersistedFound_Never(list, pid) == FALSE

\* the persisted id is restored when it names a fetched session
PersistedFound(list, pid) == pid # NoId /\ Find(list, pid) # Null
TargetSession(list, pid) ==
    IF PersistedFound(list, pid) THEN Find(list, pid) ELSE MostRecent(list)

\* the part of loadSessions that runs inside the effect, up to its first await
LoadSessionsSync(auth, ref) ==
    IF ref THEN [ref |-> ref, fetch |-> FALSE]
    ELSE IF ~auth THEN [ref |-> TRUE, fetch |-> FALSE]
    ELSE [ref |-> ref, fetch |-> TRUE]

\* mutant: the effects run on every render
AuthDepChanged_Always(old, new) == TRUE

\* dependency array [isAuthenticated] of the load and reset effects
AuthDepChanged(old, new) == old # new

(* ------------------------ App: initial session ------------------------ *)
\* mutant: the effect depends on sessions.length alone
InitialDepsChanged_LengthOnly(ils, list, cur) == Len(list) # Len(sessions)

\* dependency array [isLoadingSessions, sessions.length, currentSession]
InitialDepsChanged(ils, list, cur) ==
    ils # isLoadingSessions \/ Len(list) # Len(sessions) \/ cur # currentSession

\* mutant: the effect does not consult the latch
ShouldAutoCreate_NoLatch(ils, list, attempted, noAuto, cur) ==
    ~ils /\ Len(list) = 0 /\ ~noAuto /\ cur = Null

\* !isLoadingSessions && sessions.length === 0 && !hasAttemptedInitialSession.current
\*   && !hasExplicitlyChosenNoSessions && !hasCurrentSession
ShouldAutoCreate(ils, list, attempted, noAuto, cur) ==
    ~ils /\ Len(list) = 0 /\ ~attempted /\ ~noAuto /\ cur = Null

\* mutant: the snapshot is not rewritten
MirrorEffect_Stale(listSet, list, stored) == stored

\* useEffect(() => localStorage.setItem('earthgpt-sessions', JSON.stringify(sessions)), [sessions])
MirrorEffect(listSet, list, stored) == IF listSet THEN JSONStringify(list) ELSE stored

CreateOp(origin) == [kind |-> "create", origin |-> origin, clean |-> TRUE]

\* Render after a batch of state updates, then the effects whose dependencies
\* changed: the mirror effect ([sessions]; every setSessions call passes a new
\* array) and App's initial-session effect.
Commit(list, listSet, cur, ils, curId, noAuto, pending) ==
    LET fire == /\ InitialDepsChanged(ils, list, cur)
                /\ ShouldAutoCreate(ils, list, hasAttemptedInitialSession, noAuto, cur)
    IN /\ sessions' = list
       /\ currentSession' = cur
       /\ isLoadingSessions' = ils
       /\ ls_sessions' = MirrorEffect(listSet, list, ls_sessions)
       /\ ls_currentId' = curId
       /\ ls_noAuto' = noAuto
       /\ hasAttemptedInitialSession' = (hasAttemptedInitialSession \/ fire)
       /\ autoCreateCount' = autoCreateCount + (IF fire THEN 1 ELSE 0)
       /\ ops' = IF fire THEN Append(pending, CreateOp("auto")) ELSE pending

(* ------------------------------- Init --------------------------------- *)
\* A page load: React state is not constructed yet; localStorage holds what an
\* earlier lifetime left.
StoredSnapshots == {Absent, Corrupt, JSONStringify(<< >>), JSONStringify(MapRows(<<Row1, Row2, Row3>>))}
StoredIds == {NoId, SrvId(2), SrvId(9)}

Init ==
    /\ mounted = FALSE
    /\ isAuthenticated = FALSE
    /\ sessions = << >>
    /\ currentSession = Null
    /\ isLoading = FALSE
    /\ isLoadingSessions = TRUE
    /\ sessionsLoadedRef = FALSE
    /\ hasAttemptedInitialSession = FALSE
    /\ ls_sessions \in StoredSnapshots
    /\ ls_currentId \in StoredIds
    /\ ls_noAuto \in BOOLEAN
    /\ ops = << >>
    /\ now = 5
    /\ created = 0
    /\ fetchCount = 0
    /\ autoCreateCount = 0
    /\ authRises = 0 /\ authFalls = 0
    /\ events = 0
    /\ last = [kind |-> "init"]

(* ----------------------- mount and authentication --------------------- *)
\* mutant: the reset effect clears nothing
ResetClears_Never(auth) == FALSE

\* reset effect: if (!isAuthenticated) { setCurrentSession(null); setSessions([]); removeItem(...) }
ResetClears(auth) == ~auth

LoadOp == [kind |-> "load", pc |-> "list", clean |-> TRUE]

\* The load effect, then the reset effect, both with dependency isAuthenticated
\* = auth; all of a mount's effects run, the mirror effect included.
AuthEffects(auth, onMount) ==
    LET e1 == LoadSessionsSync(auth, sessionsLoadedRef)
        clear == ResetClears(auth)
        pending == IF e1.fetch THEN Append(Dirty(ops), LoadOp) ELSE Dirty(ops)
    IN /\ sessionsLoadedRef' = FALSE
       /\ fetchCount' = fetchCount + (IF e1.fetch THEN 1 ELSE 0)
       /\ Commit(IF clear THEN << >> ELSE sessions,
                 clear \/ onMount,
                 IF clear THEN Null ELSE currentSession,
                 TRUE,
                 IF clear THEN NoId ELSE ls_currentId,
                 ls_noAuto,
                 pending)

Mount ==
    /\ ~mounted
    /\ mounted' = TRUE
    /\ AuthEffects(isAuthenticated, TRUE)
    /\ last' = [kind |-> "mount", idBefore |-> ls_currentId, snapshotBefore |-> ls_sessions]
    /\ UNCHANGED <<authVars, isLoading, now, created, events>>

\* AuthContext: setUser(currentUser) while user is null
AuthBecomesTrue ==
    /\ mounted /\ ~isAuthenticated /\ events < MaxEvents
    /\ isAuthenticated' = TRUE
    /\ authRises' = authRises + 1
    /\ events' = events + 1
    /\ IF AuthDepChanged(isAuthenticated, TRUE)
       THEN AuthEffects(TRUE, FALSE)
       ELSE /\ Commit(sessions, FALSE, currentSession, isLoadingSessions, ls_currentId, ls_noAuto, Dirty(ops))
            /\ UNCHANGED <<sessionsLoadedRef, fetchCount>>
    /\ last' = [kind |-> "authTrue"]
    /\ UNCHANGED <<mounted, authFalls, isLoading, now, created>>

\* AuthContext logout: setUser(null)
AuthBecomesFalse ==
    /\ mounted /\ isAuthenticated /\ events < MaxEvents
    /\ isAuthenticated' = FALSE
    /\ authFalls' = authFalls + 1
    /\ events' = events + 1
    /\ IF AuthDepChanged(isAuthenticated, FALSE)
       THEN AuthEffects(FALSE, FALSE)
       ELSE /\ Commit(sessions, FALSE, currentSession, isLoadingSessions, ls_currentId, ls_noAuto, Dirty(ops))
            /\ UNCHANGED <<sessionsLoadedRef, fetchCount>>
    /\ last' = [kind |-> "authFalse", before |-> ls_noAuto,
                full |-> Len(sessions) > 0 /\ currentSession # Null /\ ls_currentId # NoId]
    /\ UNCHANGED <<mounted, authRises, isLoading, now, created>>

\* AuthContext login while a user is set: setUser(currentUser) with a new
\* object; isAuthenticated stays true
AuthSignalledTrueAgain ==
    /\ mounted /\ isAuthenticated
    /\ IF AuthDepChanged(isAuthenticated, TRUE)
       THEN AuthEffects(TRUE, FALSE)
       ELSE /\ Commit(sessions, FALSE, currentSession, isLoadingSessions, ls_currentId, ls_noAuto, ops)
            /\ UNCHANGED <<sessionsLoadedRef, fetchCount>>
    /\ last' = [kind |-> "authAgain"]
    /\ UNCHANGED <<mounted, authVars, isLoading, now, created, events>>

(* ---------------------- loadSessions, continued ----------------------- *)
IsOp(i, kind, pc) == i \in DOMAIN ops /\ ops[i].kind = kind /\ ops[i].pc = pc

\* getUserSessions resolved
LoadListOk(i, rows) ==
    /\ IsOp(i, "load", "list")
    /\ LET backendSessions == MapRows(rows)
           persistedSessionId == ls_currentId
       IN IF Len(backendSessions) > 0
          THEN LET target == TargetSession(backendSessions, persistedSessionId)
                   curId == IF persistedSessionId # NoId /\ ~PersistedFound(backendSessions, persistedSessionId)
                            THEN NoId ELSE ls_currentId
                   pending == [DirtyBut(ops, i) EXCEPT ![i] =
                                 [kind |-> "load", pc |-> "history", clean |-> ops[i].clean, target |-> target,
                                  rows |-> rows, persisted |-> persistedSessionId]]
               IN /\ Commit(backendSessions, TRUE, currentSession, isLoadingSessions, curId, ls_noAuto, pending)
                  /\ last' = [kind |-> "loadList", n |-> Len(rows), persisted |-> persistedSessionId,
                              target |-> target, rows |-> rows, idBefore |-> ls_currentId]
          ELSE /\ Commit(backendSessions, TRUE, Null, FALSE, NoId, ls_noAuto, RemoveAt(DirtyBut(ops, i), i))
               /\ last' = [kind |-> "loadList", n |-> 0, persisted |-> persistedSessionId,
                           noAuto |-> ls_noAuto, currentBefore |-> currentSession,
                           attempted |-> hasAttemptedInitialSession, sessionsBefore |-> sessions,
                           loadingBefore |-> isLoadingSessions, autoBefore |-> autoCreateCount]
    /\ sessionsLoadedRef' = TRUE
    /\ UNCHANGED <<mounted, authVars, isLoading, now, created, fetchCount, events>>

\* if (savedSessions) { try { JSON.parse(savedSessions) ... } catch (parseError) {...} }
SnapshotUsable(saved) == saved # Absent /\ JSONParseOk(saved)

\* mutant: the snapshot is not read
FallbackSessions_Ignore(saved, list) == list

\* setSessions(parsedSessions) when the snapshot is stored and parses
FallbackSessions(saved, list) == IF SnapshotUsable(saved) THEN JSONParse(saved) ELSE list

\* mutant: a parse error leaves the catch block before line 128
RefAfterFallback_Uncaught(saved) == saved = Absent \/ JSONParseOk(saved)

\* sessionsLoadedRef.current = true after the inner try/catch, whatever the
\* snapshot was
RefAfterFallback(saved) == TRUE

\* getUserSessions rejected: fall back to the snapshot
LoadListFail(i) ==
    /\ IsOp(i, "load", "list")
    /\ LET savedSessions == ls_sessions
       IN /\ Commit(FallbackSessions(savedSessions, sessions), SnapshotUsable(savedSessions),
                    currentSession, FALSE, ls_currentId, ls_noAuto, RemoveAt(DirtyBut(ops, i), i))
          /\ last' = [kind |-> "loadFail", saved |-> savedSessions, before |-> sessions,
                      currentBefore |-> currentSession, loadsBefore |-> Cardinality({j \in DOMAIN ops : ops[j].kind = "load"}),
                      refBefore |-> sessionsLoadedRef]
          /\ sessionsLoadedRef' = (sessionsLoadedRef \/ RefAfterFallback(savedSessions))
    /\ UNCHANGED <<mounted, authVars, isLoading, now, created, fetchCount, events>>

\* mutant: the fetched history is dropped
HistoryMessagesOf_Empty(response) == << >>

\* response.messages || []
HistoryMessagesOf(response) == IF response.has THEN response.messages ELSE << >>

\* getSessionHistory(targetSession.id) resolved
LoadHistoryOk(i, response) ==
    /\ IsOp(i, "load", "history")
    /\ LET target == ops[i].target
           sessionWithMessages == Spread(target, [messages |-> HistoryMessagesOf(response)])
       IN /\ Commit(sessions, FALSE, sessionWithMessages, FALSE, target.id, ls_noAuto,
                    RemoveAt(DirtyBut(ops, i), i))
          /\ last' = [kind |-> "loadHistory", ok |-> TRUE, op |-> ops[i], response |-> response]
    /\ UNCHANGED <<mounted, authVars, isLoading, sessionsLoadedRef, now, created, fetchCount, events>>

\* getSessionHistory(targetSession.id) rejected
LoadHistoryFail(i) ==
    /\ IsOp(i, "load", "history")
    /\ LET target == ops[i].target
       IN /\ Commit(sessions, FALSE, target, FALSE, target.id, ls_noAuto, RemoveAt(DirtyBut(ops, i), i))
          /\ last' = [kind |-> "loadHistory", ok |-> FALSE, op |-> ops[i]]
    /\ UNCHANGED <<mounted, authVars, isLoading, sessionsLoadedRef, now, created, fetchCount, events>>

(* -------------------------- createNewSession -------------------------- *)
\* the session built from POST /auth/sessions' answer to {title: 'New Chat'}
RemoteSession(n) ==
    [id |-> NewId(n), title |-> NewChat, messages |-> << >>, createdAt |-> 4,
     lastActivity |-> 4, isActive |-> TRUE]
\* the fallback session built when the call fails
LocalSession(t) ==
    [id |-> LocalId(t), title |-> NewChat, messages |-> << >>, createdAt |-> t,
     lastActivity |-> t, isActive |-> TRUE]

\* mutant: the new session is put last
Prepend_Append(newSession, list) == list \o <<newSession>>

\* setSessions(prev => [newSession, ...prev])
Prepend(newSession, list) == <<newSession>> \o list

UserMayAct == mounted /\ isAuthenticated /\ events < MaxEvents

\* App.handleNewChat: clears the opt-out flag, then createNewSession()
HandleNewChat ==
    /\ UserMayAct
    /\ events' = events + 1
    /\ Commit(sessions, FALSE, currentSession, isLoadingSessions, ls_currentId, FALSE,
              Append(Dirty(ops), CreateOp("manual")))
    /\ last' = [kind |-> "newChat"]
    /\ UNCHANGED <<mounted, authVars, isLoading, sessionsLoadedRef, now, created, fetchCount>>

IsCreate(i) == i \in DOMAIN ops /\ ops[i].kind = "create"

\* createSession resolved
CreateOk(i) ==
    /\ IsCreate(i)
    /\ LET newSession == RemoteSession(created + 1)
       IN /\ Commit(Prepend(newSession, sessions), TRUE, newSession, isLoadingSessions,
                    newSession.id, ls_noAuto, RemoveAt(DirtyBut(ops, i), i))
          /\ last' = [kind |-> "created", origin |-> ops[i].origin, ok |-> TRUE, session |-> newSession,
                      sessionsBefore |-> sessions]
    /\ created' = created + 1
    /\ UNCHANGED <<mounted, authVars, isLoading, sessionsLoadedRef, now, fetchCount, events>>

\* createSession rejected
CreateFail(i) ==
    /\ IsCreate(i)
    /\ LET newSession == LocalSession(now + 1)
       IN /\ Commit(Prepend(newSession, sessions), TRUE, newSession, isLoadingSessions,
                    newSession.id, ls_noAuto, RemoveAt(DirtyBut(ops, i), i))
          /\ last' = [kind |-> "created", origin |-> ops[i].origin, ok |-> FALSE, session |-> newSession,
                      sessionsBefore |-> sessions]
    /\ now' = now + 1
    /\ UNCHANGED <<mounted, authVars, isLoading, sessionsLoadedRef, created, fetchCount, events>>

(* ---------------------------- selectSession --------------------------- *)
\* Sidebar onSelectSession(session) with an entry of the rendered list
HandleSelectSession(k) ==
    /\ UserMayAct
    /\ k \in DOMAIN sessions
    /\ events' = events + 1
    /\ Commit(sessions, FALSE, currentSession, isLoadingSessions, ls_currentId, ls_noAuto,
              Append(Dirty(ops), [kind |-> "select", pc |-> "history", clean |-> TRUE, session |-> sessions[k]]))
    /\ last' = [kind |-> "select", session |-> sessions[k]]
    /\ UNCHANGED <<mounted, authVars, isLoading, sessionsLoadedRef, now, created, fetchCount>>

\* the sessions of the selectSession calls dispatched before call i and still
\* waiting for their history
EarlierSelects(i) == {ops[j].session : j \in {m \in 1..(i - 1) : ops[m].kind = "select"}}

SelectOk(i, response) ==
    /\ IsOp(i, "select", "history")
    /\ LET session == ops[i].session
           sessionWithMessages == Spread(session, [messages |-> HistoryMessagesOf(response)])
       IN /\ Commit(sessions, FALSE, sessionWithMessages, isLoadingSessions, session.id, ls_noAuto,
                    RemoveAt(DirtyBut(ops, i), i))
          /\ last' = [kind |-> "selected", ok |-> TRUE, session |-> session, response |-> response,
                      earlier |-> EarlierSelects(i), raised |-> FALSE]
    /\ UNCHANGED <<mounted, authVars, isLoading, sessionsLoadedRef, now, created, fetchCount, events>>

SelectFail(i) ==
    /\ IsOp(i, "select", "history")
    /\ LET session == ops[i].session
       IN /\ Commit(sessions, FALSE, session, isLoadingSessions, session.id, ls_noAuto,
                    RemoveAt(DirtyBut(ops, i), i))
          /\ last' = [kind |-> "selected", ok |-> FALSE, session |-> session,
                      earlier |-> EarlierSelects(i), raised |-> FALSE]
    /\ UNCHANGED <<mounted, authVars, isLoading, sessionsLoadedRef, now, created, fetchCount, events>>

(* ---------------------------- deleteSession --------------------------- *)
\* Sidebar onDeleteSession(session.id): App.handleDeleteSession awaits
\* deleteSession; both closures hold the rendered sessions and currentSession
HandleDeleteSession(k) ==
    /\ UserMayAct
    /\ k \in DOMAIN sessions
    /\ events' = events + 1
    /\ Commit(sessions, FALSE, currentSession, isLoadingSessions, ls_currentId, ls_noAuto,
              Append(Dirty(ops), [kind |-> "delete", pc |-> "remote", clean |-> TRUE,
                                  sessionId |-> sessions[k].id,
                                  currentSession |-> currentSession, sessions |-> sessions]))
    /\ last' = [kind |-> "delete", sessionId |-> sessions[k].id]
    /\ UNCHANGED <<mounted, authVars, isLoading, sessionsLoadedRef, now, created, fetchCount>>

\* App.handleDeleteSession after the await: if (sessions.length === 1) removeItem(no-auto-session)
FlagAfterDelete(closureSessions, noAuto) == IF Len(closureSessions) = 1 THEN FALSE ELSE noAuto

\* currentSession?.id === sessionId
DeletedIsCurrent(closureCurrent, sessionId) == closureCurrent # Null /\ closureCurrent.id = sessionId

\* authService.deleteSession resolved
DeleteOk(i) ==
    /\ IsOp(i, "delete", "remote")
    /\ LET o == ops[i]
           remainingSessions == Filter(o.sessions, o.sessionId)
           isCurrent == DeletedIsCurrent(o.currentSession, o.sessionId)
           cur == IF ~isCurrent THEN currentSession
                  ELSE IF Len(remainingSessions) > 0 THEN remainingSessions[1] ELSE Null
           curId == IF ~isCurrent THEN ls_currentId
                    ELSE IF Len(remainingSessions) > 0 THEN remainingSessions[1].id ELSE NoId
       IN /\ Commit(Filter(sessions, o.sessionId), TRUE, cur, isLoadingSessions, curId,
                    FlagAfterDelete(o.sessions, ls_noAuto), RemoveAt(DirtyBut(ops, i), i))
          /\ last' = [kind |-> "deleted", ok |-> TRUE, op |-> o, sessionsBefore |-> sessions,
                      currentBefore |-> currentSession, idBefore |-> ls_currentId, noAutoBefore |-> ls_noAuto,
                      errors |-> 0]
    /\ UNCHANGED <<mounted, authVars, isLoading, sessionsLoadedRef, now, created, fetchCount, events>>

\* mutant: the entry is pruned although the remote delete failed
ListAfterFailedDelete_Pruned(list, sessionId) == Filter(list, sessionId)

\* deleteSession's catch block calls no setSessions
ListAfterFailedDelete(list, sessionId) == list

\* authService.deleteSession rejected: toast.error('Failed to delete session')
DeleteFail(i) ==
    /\ IsOp(i, "delete", "remote")
    /\ LET o == ops[i]
           list == ListAfterFailedDelete(sessions, o.sessionId)
       IN /\ Commit(list, list # sessions, currentSession, isLoadingSessions, ls_currentId,
                    FlagAfterDelete(o.sessions, ls_noAuto), RemoveAt(DirtyBut(ops, i), i))
          /\ last' = [kind |-> "deleted", ok |-> FALSE, op |-> o, sessionsBefore |-> sessions,
                      currentBefore |-> currentSession, idBefore |-> ls_currentId, noAutoBefore |-> ls_noAuto,
                      errors |-> 1]
    /\ UNCHANGED <<mounted, authVars, isLoading, sessionsLoadedRef, now, created, fetchCount, events>>

(* ----------------------------- sendMessage ---------------------------- *)
\* mutant: the title is derived on every send
IsFirstMessage_Always(cs) == TRUE

\* currentSession.messages.length === 0
IsFirstMessage(cs) == Len(cs.messages) = 0

\* content.length > 50 ? content.substring(0, 50) + '...' : content
DeriveTitle(content) ==
    IF Len(content) > TitleMax THEN Substring0(content, TitleMax) \o Ellipsis ELSE content

\* updateSessionTitle(sessionId, title) applied to the pending list
UpdateSessionTitle(list, sessionId, title, t) ==
    [k \in DOMAIN list |->
        IF list[k].id = sessionId THEN Spread(list[k], [title |-> title, lastActivity |-> t])
        ELSE list[k]]

\* mutant: the detail is not compared
IsSessionNotFound_StatusOnly(error) == error.status = NotFoundStatus

\* error.response?.status === 404 && error.response?.data?.detail === "Session not found"
IsSessionNotFound(error) ==
    error.status = NotFoundStatus /\ error.detail = SessionNotFoundDetail

ChatRequest(content, sessionId, requestDetailed) ==
    [message |-> content, session_id |-> sessionId, request_detailed |-> requestDetailed]

\* mutant: setIsLoading(true) runs before the guard
IsLoadingOnReject_Set(loading) == TRUE

\* if (!currentSession) { toast.error('No active session'); return; } comes
\* before setIsLoading(true)
IsLoadingOnReject(loading) == loading

\* useChat.sendMessage up to its first await
SendMessage(content, requestDetailed) ==
    IF currentSession = Null
    THEN /\ Commit(sessions, FALSE, currentSession, isLoadingSessions, ls_currentId, ls_noAuto, Dirty(ops))
         /\ last' = [kind |-> "sendRejected", sessionsBefore |-> sessions, isLoadingBefore |-> isLoading,
                     snapshotBefore |-> ls_sessions, idBefore |-> ls_currentId, noAutoBefore |-> ls_noAuto,
                     opsBefore |-> Len(ops), errors |-> 1]
         /\ isLoading' = IsLoadingOnReject(isLoading)
         /\ UNCHANGED now
    ELSE LET t == now + 1
             userMessage == Msg("user", content, t)
             updatedMessages == Append(currentSession.messages, userMessage)
             updatedSession == Spread(currentSession, [messages |-> updatedMessages, lastActivity |-> t])
             replaced == MapReplace(sessions, currentSession.id, updatedSession)
             titled == IF IsFirstMessage(currentSession)
                       THEN UpdateSessionTitle(replaced, currentSession.id, DeriveTitle(content), t)
                       ELSE replaced
             op == [kind |-> "send", pc |-> "first", clean |-> TRUE,
                    currentSession |-> currentSession, updatedSession |-> updatedSession,
                    content |-> content, requestDetailed |-> requestDetailed,
                    requests |-> <<ChatRequest(content, currentSession.id, requestDetailed)>>,
                    replacements |-> << >>, firstError |-> Null]
         IN /\ Commit(titled, TRUE, updatedSession, isLoadingSessions, ls_currentId, ls_noAuto,
                      Append(Dirty(ops), op))
            /\ isLoading' = TRUE
            /\ now' = t
            /\ last' = [kind |-> "sendDispatched", op |-> op, sessionsBefore |-> sessions]

\* ChatInput.handleSubmit: if (!message.trim() || isLoading || disabled) return;
\* ChatInput is rendered when authenticated and sessions are not loading
ChatInputAccepts == ~isLoading /\ ~isLoadingSessions

\* App.handleSendMessage from ChatInput: onSendMessage(message.trim())
HandleSendMessage(content) ==
    /\ UserMayAct
    /\ ChatInputAccepts
    /\ events' = events + 1
    /\ SendMessage(content, FALSE)
    /\ UNCHANGED <<mounted, authVars, sessionsLoadedRef, created, fetchCount>>

\* mutant: the final list is built on the messages before the send
FinalSession_FromCurrent(o, response, t) ==
    LET assistantMessage == [role |-> "assistant", content |-> response.response,
                             timestamp |-> response.timestamp, memory_used |-> response.memory_used]
        finalMessages == Append(o.currentSession.messages, assistantMessage)
    IN Spread(o.updatedSession,
              [messages |-> finalMessages, lastActivity |-> t, messageCount |-> Len(finalMessages)])

\* finalSession built from the response; applied to currentSession and to the
\* list entry whose id is the id the send started with
FinalSession(o, response, t) ==
    LET assistantMessage == [role |-> "assistant", content |-> response.response,
                             timestamp |-> response.timestamp, memory_used |-> response.memory_used]
        finalMessages == Append(o.updatedSession.messages, assistantMessage)
    IN Spread(o.updatedSession,
              [messages |-> finalMessages, lastActivity |-> t, messageCount |-> Len(finalMessages)])

\* mutant: the catch block leaves the optimistic message in place
Rollback_Keep(prev) == prev

\* setCurrentSession(prev => prev ? {...prev, messages: prev.messages.slice(0, -1)} : null)
Rollback(prev) ==
    IF prev # Null THEN Spread(prev, [messages |-> SliceDropLast(prev.messages)]) ELSE Null

\* the user messages of the other sendMessage calls that are under way
OtherSends(i) ==
    {Pop(ops[j].updatedSession.messages) : j \in {m \in DOMAIN ops : m # i /\ ops[m].kind = "send"}}

SendSucceeds(i, response) ==
    LET o == ops[i]
        finalSession == FinalSession(o, response, now + 1)
    IN /\ Commit(MapReplace(sessions, o.currentSession.id, finalSession), TRUE, finalSession,
                 isLoadingSessions, ls_currentId, ls_noAuto, RemoveAt(DirtyBut(ops, i), i))
       /\ isLoading' = FALSE
       /\ now' = now + 1
       /\ last' = [kind |-> "sendDone", ok |-> TRUE, op |-> o, response |-> response,
                   currentBefore |-> currentSession, sessionsBefore |-> sessions, errors |-> 0,
                   overlapping |-> OtherSends(i)]
       /\ UNCHANGED <<mounted, authVars, sessionsLoadedRef, created, fetchCount, events>>

\* catch: toast.error('Failed to send message. Please try again.'), roll back; finally
SendFails(i, o, error) ==
       /\ Commit(sessions, FALSE, Rollback(currentSession), isLoadingSessions, ls_currentId, ls_noAuto,
                 RemoveAt(DirtyBut(ops, i), i))
       /\ isLoading' = FALSE
       /\ last' = [kind |-> "sendDone", ok |-> FALSE, op |-> o, error |-> error,
                   currentBefore |-> currentSession, sessionsBefore |-> sessions, errors |-> 1,
                   overlapping |-> OtherSends(i)]
       /\ UNCHANGED <<mounted, authVars, sessionsLoadedRef, now, created, fetchCount, events>>

\* first sendAuthenticatedMessage resolved
SendFirstOk(i, response) ==
    /\ IsOp(i, "send", "first")
    /\ SendSucceeds(i, response)

\* mutant: the retry is wrapped by the recovery too
ShouldRecover_Always(pc, error) == IsSessionNotFound(error)

\* the inner try/catch wraps the first dispatch only; the retry's rejection
\* reaches the outer catch directly
ShouldRecover(pc, error) == pc = "first" /\ IsSessionNotFound(error)

\* a sendAuthenticatedMessage call rejected: session-not-found on the first
\* dispatch starts createNewSession(), anything else reaches the outer catch
SendRejected(i, error) ==
    IF ShouldRecover(ops[i].pc, error)
    THEN /\ Commit(sessions, FALSE, currentSession, isLoadingSessions, ls_currentId, ls_noAuto,
                   [DirtyBut(ops, i) EXCEPT ![i] = Spread(ops[i], [pc |-> "create", firstError |-> error])])
         /\ last' = [kind |-> "sendRecovering", op |-> ops[i], error |-> error]
         /\ UNCHANGED <<mounted, authVars, isLoading, sessionsLoadedRef, now, created, fetchCount, events>>
    ELSE SendFails(i, IF ops[i].firstError = Null THEN Spread(ops[i], [firstError |-> error]) ELSE ops[i], error)

SendFirstFail(i, error) ==
    /\ IsOp(i, "send", "first")
    /\ SendRejected(i, error)

\* createNewSession() inside sendMessage returned newSession; the retry is
\* dispatched in the same continuation
SendRetryDispatch(i, newSession) ==
    LET o == ops[i]
        retry == Spread(o, [pc |-> "retry",
                            requests |-> Append(o.requests, ChatRequest(o.content, newSession.id, o.requestDetailed)),
                            replacements |-> Append(o.replacements, newSession)])
    IN /\ Commit(Prepend(newSession, sessions), TRUE, newSession, isLoadingSessions, newSession.id, ls_noAuto,
                 [DirtyBut(ops, i) EXCEPT ![i] = retry])
       /\ last' = [kind |-> "sendRetried", op |-> retry, sessionsBefore |-> sessions]

SendCreateOk(i) ==
    /\ IsOp(i, "send", "create")
    /\ SendRetryDispatch(i, RemoteSession(created + 1))
    /\ created' = created + 1
    /\ UNCHANGED <<mounted, authVars, isLoading, sessionsLoadedRef, now, fetchCount, events>>

SendCreateFail(i) ==
    /\ IsOp(i, "send", "create")
    /\ SendRetryDispatch(i, LocalSession(now + 1))
    /\ now' = now + 1
    /\ UNCHANGED <<mounted, authVars, isLoading, sessionsLoadedRef, created, fetchCount, events>>

\* the retry's sendAuthenticatedMessage resolved
SendRetryOk(i, response) ==
    /\ IsOp(i, "send", "retry")
    /\ SendSucceeds(i, response)

\* the retry's sendAuthenticatedMessage rejected: the outer catch, whatever the error
SendRetryFail(i, error) ==
    /\ IsOp(i, "send", "retry")
    /\ SendRejected(i, error)

(* --------------------------- requestDetailed -------------------------- *)
RECURSIVE FilterUser(_)
\* messages.filter(msg => msg.role === 'user')
FilterUser(msgs) ==
    IF msgs = << >> THEN << >>
    ELSE (IF Head(msgs).role = "user" THEN <<Head(msgs)>> ELSE << >>) \o FilterUser(Tail(msgs))

\* mutant: the last message, whatever its role
LastUserMessage_LastAny(msgs) == Pop(msgs)

\* currentSession.messages.filter(msg => msg.role === 'user').pop()
LastUserMessage(msgs) == Pop(FilterUser(msgs))

\* useChat.requestDetailed, called through the hook's interface (App hands it
\* to ChatArea as onRequestDetailed); neither it nor sendMessage looks at
\* isLoading or at the authentication state
RequestDetailed ==
    /\ mounted /\ events < MaxEvents
    /\ events' = events + 1
    /\ IF currentSession = Null \/ Len(currentSession.messages) = 0
          \/ LastUserMessage(currentSession.messages) = Null
       THEN /\ Commit(sessions, FALSE, currentSession, isLoadingSessions, ls_currentId, ls_noAuto, Dirty(ops))
            /\ last' = [kind |-> "detailedSkipped", sessionsBefore |-> sessions, currentBefore |-> currentSession,
                        isLoadingBefore |-> isLoading, snapshotBefore |-> ls_sessions,
                        idBefore |-> ls_currentId, noAutoBefore |-> ls_noAuto, opsBefore |-> Len(ops)]
            /\ UNCHANGED <<isLoading, now>>
       ELSE SendMessage(LastUserMessage(currentSession.messages).content, TRUE)
    /\ UNCHANGED <<mounted, authVars, sessionsLoadedRef, created, fetchCount>>

(* ------------------------- App: ChatArea props ------------------------ *)
\* isSummarizing={currentSession?.isSummarizing || false}; a session object
\* without the property gives false
IsSummarizing(cs) == cs # Null /\ "isSummarizing" \in DOMAIN cs /\ cs.isSummarizing

(* ------------------- Sidebar: "Start with no sessions" ----------------- *)
\* localStorage.setItem('earthgpt-no-auto-session', 'true'); window.location.reload()
StartWithNoSessions ==
    /\ mounted /\ isAuthenticated /\ Len(sessions) = 0
    /\ ls_noAuto' = TRUE
    /\ mounted' = FALSE
    /\ isAuthenticated' = FALSE
    /\ sessions' = << >>
    /\ currentSession' = Null
    /\ isLoading' = FALSE
    /\ isLoadingSessions' = TRUE
    /\ sessionsLoadedRef' = FALSE
    /\ hasAttemptedInitialSession' = FALSE
    /\ ops' = << >>
    /\ fetchCount' = 0
    /\ autoCreateCount' = 0
    /\ authRises' = 0 /\ authFalls' = 0
    /\ last' = [kind |-> "reload"]
    /\ UNCHANGED <<ls_sessions, ls_currentId, now, created, events>>

(* ------------------- localStorage written elsewhere ------------------- *)
\* localStorage is shared by every page of the origin: what another tab of
\* the application (its mirror effect after a send), a storage clear or a
\* damaged write leaves under 'earthgpt-sessions'
SessionWithMessages == Spread(MapRow(Row2), [messages |-> HistoryMessages, messageCount |-> 2])
SharedSnapshots == {Absent, Corrupt, JSONStringify(<<SessionWithMessages>>)}

StorageWrittenElsewhere(v) ==
    /\ mounted /\ events < MaxEvents
    /\ v # ls_sessions
    /\ ls_sessions' = v
    /\ events' = events + 1
    /\ ops' = Dirty(ops)
    /\ last' = [kind |-> "storage"]
    /\ UNCHANGED <<mounted, authVars, sessions, currentSession, isLoading, isLoadingSessions,
                   sessionsLoadedRef, hasAttemptedInitialSession, ls_currentId, ls_noAuto,
                   now, created, fetchCount, autoCreateCount>>

(* ------------------------------- Next --------------------------------- *)
Next ==
    \/ Mount
    \/ AuthBecomesTrue
    \/ AuthBecomesFalse
    \/ AuthSignalledTrueAgain
    \/ \E i \in DOMAIN ops, rows \in RemoteLists : LoadListOk(i, rows)
    \/ \E i \in DOMAIN ops : LoadListFail(i)
    \/ \E i \in DOMAIN ops, response \in HistoryResponses : LoadHistoryOk(i, response)
    \/ \E i \in DOMAIN ops : LoadHistoryFail(i)
    \/ HandleNewChat
    \/ \E i \in DOMAIN ops : CreateOk(i)
    \/ \E i \in DOMAIN ops : CreateFail(i)
    \/ \E k \in 1..Len(sessions) : HandleSelectSession(k)
    \/ \E i \in DOMAIN ops, response \in HistoryResponses : SelectOk(i, response)
    \/ \E i \in DOMAIN ops : SelectFail(i)
    \/ \E k \in 1..Len(sessions) : HandleDeleteSession(k)
    \/ \E i \in DOMAIN ops : DeleteOk(i)
    \/ \E i \in DOMAIN ops : DeleteFail(i)
    \/ \E content \in Contents : HandleSendMessage(content)
    \/ \E i \in DOMAIN ops, response \in ChatResponses : SendFirstOk(i, response)
    \/ \E i \in DOMAIN ops, error \in SendErrors : SendFirstFail(i, error)
    \/ \E i \in DOMAIN ops : SendCreateOk(i)
    \/ \E i \in DOMAIN ops : SendCreateFail(i)
    \/ \E i \in DOMAIN ops, response \in ChatResponses : SendRetryOk(i, response)
    \/ \E i \in DOMAIN ops, error \in SendErrors : SendRetryFail(i, error)
    \/ StartWithNoSessions

Spec == Init /\ [][Next]_vars

\* the application sharing its localStorage with other writers
NextShared ==
    \/ Next
    \/ \E v \in SharedSnapshots : StorageWrittenElsewhere(v)

SpecShared == Init /\ [][NextShared]_vars

\* the hook with every function of its interface in use
NextHook ==
    \/ Next
    \/ RequestDetailed

SpecHook == Init /\ [][NextHook]_vars

\* a pending remote call returns or fails
RemoteCallSettles ==
    \E i \in DOMAIN ops :
        \/ \E rows \in RemoteLists : LoadListOk(i, rows)
        \/ LoadListFail(i)
        \/ \E response \in HistoryResponses : LoadHistoryOk(i, response)
        \/ LoadHistoryFail(i)
        \/ CreateOk(i)
        \/ CreateFail(i)
        \/ \E response \in HistoryResponses : SelectOk(i, response)
        \/ SelectFail(i)
        \/ DeleteOk(i)
        \/ DeleteFail(i)
        \/ \E response \in ChatResponses : SendFirstOk(i, response)
        \/ \E error \in SendErrors : SendFirstFail(i, error)
        \/ SendCreateOk(i)
        \/ SendCreateFail(i)
        \/ \E response \in ChatResponses : SendRetryOk(i, response)
        \/ \E error \in SendErrors : SendRetryFail(i, error)

\* the program with every remote call eventually returning or failing
SpecLive == Spec /\ WF_vars(RemoteCallSettles)

(* ------------------------------ claims -------------------------------- *)
IsNotFoundError(error) == error.status = 404 /\ error.detail = SessionNotFoundDetail

\* C1: in a lifetime in which authenticated became true once and never false
\* (however often true is signalled again), useChat has issued exactly one
\* getUserSessions call and the initial-session effect has created at most one
\* session.
C1_IdempotentBootstrap ==
    (mounted /\ authRises = 1 /\ authFalls = 0) => (fetchCount = 1 /\ autoCreateCount <= 1)

C1_Witness ==
    /\ last.kind = "authAgain"
    /\ authRises = 1 /\ authFalls = 0
    /\ fetchCount = 1 /\ autoCreateCount = 1

\* C2: a send whose first dispatch fails with an error other than
\* session-not-found, with no other step in between, ends with the current
\* session holding the message list it had before the send.
C2_OptimisticRollback ==
    (last.kind = "sendDone" /\ ~last.ok /\ last.op.pc = "first" /\ last.op.clean)
        => /\ ~IsNotFoundError(last.error)
           /\ currentSession # Null
           /\ currentSession.id = last.op.currentSession.id
           /\ currentSession.messages = last.op.currentSession.messages

C2_Witness ==
    /\ last.kind = "sendDone" /\ ~last.ok /\ last.op.pc = "first" /\ last.op.clean
    /\ Len(currentSession.messages) > 0

\* C3: a send whose first dispatch and whose retry both fail with
\* session-not-found has issued exactly two sendAuthenticatedMessage calls and
\* created exactly one replacement session, reports the error once and is over;
\* no send ever issues a third call.
C3_RetrySingleShot ==
    /\ \A i \in DOMAIN ops : ops[i].kind = "send" => Len(ops[i].requests) <= 2
    /\ (last.kind = "sendDone" /\ ~last.ok /\ last.op.pc = "retry" /\ IsNotFoundError(last.error))
          => /\ IsNotFoundError(last.op.firstError)
             /\ Len(last.op.requests) = 2
             /\ Len(last.op.replacements) = 1
             /\ last.errors = 1
             /\ ~isLoading
             /\ \A i \in DOMAIN ops : ops[i].kind # "send"

C3_Witness ==
    last.kind = "sendDone" /\ ~last.ok /\ last.op.pc = "retry" /\ IsNotFoundError(last.error)

\* C4: a first dispatch that fails with status 404 and detail "Session not
\* found" creates one replacement session and re-dispatches the same message
\* and request_detailed once with the replacement's id; a first dispatch that
\* fails with any other status or detail creates no session and is not retried.
C4_SessionNotFoundRecovery ==
    /\ last.kind = "sendRecovering" => IsNotFoundError(last.error)
    /\ last.kind = "sendRetried" =>
          LET o == last.op
          IN /\ IsNotFoundError(o.firstError)
             /\ Len(o.requests) = 2 /\ Len(o.replacements) = 1
             /\ o.requests[2] = [message |-> o.requests[1].message,
                                 session_id |-> o.replacements[1].id,
                                 request_detailed |-> o.requests[1].request_detailed]
             /\ o.requests[1].session_id = o.currentSession.id
             /\ sessions = <<o.replacements[1]>> \o last.sessionsBefore
    /\ last.kind = "sendDone" =>
          LET o == last.op
          IN IF o.firstError # Null /\ IsNotFoundError(o.firstError)
             THEN Len(o.requests) = 2 /\ Len(o.replacements) = 1
             ELSE Len(o.requests) = 1 /\ Len(o.replacements) = 0

C4_Witness ==
    last.kind = "sendDone" /\ last.ok /\ last.op.pc = "retry" /\ Len(last.op.requests) = 2

\* C5: once mounted, in every state between two steps the snapshot stored
\* under 'earthgpt-sessions' parses to a list that equals the session list
\* entry for entry in id, title and lastActivity.
C5_CacheMirrorsStore ==
    mounted =>
        /\ JSONParseOk(ls_sessions)
        /\ Len(JSONParse(ls_sessions)) = Len(sessions)
        /\ \A k \in DOMAIN sessions :
              /\ JSONParse(ls_sessions)[k].id = sessions[k].id
              /\ JSONParse(ls_sessions)[k].title = sessions[k].title
              /\ JSONParse(ls_sessions)[k].lastActivity = sessions[k].lastActivity

C5_Witness ==
    mounted /\ last.kind = "sendDone" /\ last.ok /\ Len(sessions) >= 1 /\ Len(sessions[1].messages) >= 2

TitlesUnchanged(before, after) ==
    /\ Len(before) = Len(after)
    /\ \A k \in DOMAIN before : before[k].id = after[k].id /\ before[k].title = after[k].title

\* C6: a send into a session that already holds messages, dispatched while
\* the list entry of the session (if any) is the current session, as a
\* successful send leaves them (the second of two sends), changes no title,
\* neither when it is dispatched nor, with no other step in between, when its
\* response is applied; a send into a session without messages derives a title
\* for the list entry when it is dispatched.
C6_TitleFirstMessageOnly ==
    /\ (last.kind = "sendDispatched" /\ Len(last.op.currentSession.messages) > 0
            /\ Find(last.sessionsBefore, last.op.currentSession.id) \in {Null, last.op.currentSession})
          => /\ TitlesUnchanged(last.sessionsBefore, sessions)
             /\ currentSession.title = last.op.currentSession.title
    /\ (last.kind = "sendDone" /\ last.ok /\ last.op.clean /\ last.op.pc = "first"
            /\ Len(last.op.currentSession.messages) > 0
            /\ Find(last.sessionsBefore, last.op.currentSession.id) \in {Null, last.op.updatedSession})
          => /\ TitlesUnchanged(last.sessionsBefore, sessions)
             /\ currentSession.title = last.op.currentSession.title
    /\ (last.kind = "sendDispatched" /\ Len(last.op.currentSession.messages) = 0)
          => \A k \in DOMAIN sessions :
                sessions[k].id = last.op.currentSession.id
                    => sessions[k].title = (IF Len(last.op.content) > 50
                                            THEN SubSeq(last.op.content, 1, 50) \o Ellipsis
                                            ELSE last.op.content)

C6_Witness ==
    /\ last.kind = "sendDone" /\ last.ok /\ last.op.clean /\ last.op.pc = "first"
    /\ Find(last.sessionsBefore, last.op.currentSession.id) = last.op.updatedSession
    /\ Len(last.op.currentSession.messages) = 2
    /\ last.op.currentSession.messages[1].timestamp > 4
    /\ last.op.currentSession.messages[2].role = "assistant"

\* C7: after a successful first send into a session without messages, the
\* session's title (current session and list entry) is the content when it has
\* at most 50 characters, else its first 50 characters followed by "...".
C7_TitleAfterFirstSend ==
    (last.kind = "sendDone" /\ last.ok /\ last.op.pc = "first" /\ last.op.clean
        /\ Len(last.op.currentSession.messages) = 0)
        => LET content == last.op.content
               expected == IF Len(content) <= 50 THEN content
                           ELSE SubSeq(content, 1, 50) \o Ellipsis
           IN /\ currentSession.title = expected
              /\ \A k \in DOMAIN sessions :
                    sessions[k].id = last.op.currentSession.id => sessions[k].title = expected

\* C8 as stated: whenever a load completes with an empty remote list while the
\* opt-out flag is not set and no session is current, the initial-session
\* effect starts creating a session at that step, or the creation it started
\* earlier is still under way.
C8_AutoCreateWhenever ==
    (last.kind = "loadList" /\ last.n = 0 /\ ~last.noAuto /\ last.currentBefore = Null)
        => \/ autoCreateCount = last.autoBefore + 1
           \/ \E i \in DOMAIN ops : ops[i].kind = "create" /\ ops[i].origin = "auto"

\* C8 amended: when a load completes with an empty remote list while the
\* opt-out flag is not set, no session is current, no initial session has been
\* attempted in this lifetime and isLoadingSessions is still true, exactly one
\* createNewSession is started by the initial-session effect; when it
\* completes, the new session is the current session, heads the list and its id
\* is persisted; the effect never starts a second one.
C8_AutoCreateOnce ==
    /\ (last.kind = "loadList" /\ last.n = 0 /\ ~last.noAuto /\ last.currentBefore = Null
            /\ ~last.attempted /\ last.loadingBefore)
          => /\ autoCreateCount = 1 /\ last.autoBefore = 0
             /\ hasAttemptedInitialSession
             /\ \E i \in DOMAIN ops : ops[i].kind = "create" /\ ops[i].origin = "auto"
    /\ (last.kind = "created" /\ last.origin = "auto")
          => /\ currentSession = last.session
             /\ sessions = <<last.session>> \o last.sessionsBefore
             /\ ls_currentId = last.session.id
    /\ autoCreateCount <= 1

C8_Witness ==
    /\ last.kind = "created" /\ last.origin = "auto"
    /\ currentSession = last.session
    /\ autoCreateCount = 1

\* C9: when the load that follows authenticated becoming true fetches three
\* sessions and reads a persisted current-session id equal to the id of the
\* second, then once its history call has answered the current session is that
\* second session with the messages of the answer, and its id is persisted.
C9_RestorePersisted ==
    (last.kind = "loadHistory" /\ last.ok /\ Len(last.op.rows) = 3
        /\ last.op.persisted = last.op.rows[2].id)
        => /\ currentSession # Null
           /\ currentSession.id = last.op.rows[2].id
           /\ currentSession.messages = (IF last.response.has THEN last.response.messages ELSE << >>)
           /\ ls_currentId = last.op.rows[2].id

C9_Witness ==
    /\ last.kind = "loadHistory" /\ last.ok /\ Len(last.op.rows) = 3
    /\ last.op.persisted = last.op.rows[2].id
    /\ last.op.rows[1].last_activity >= last.op.rows[2].last_activity
    /\ isAuthenticated
    /\ Len(currentSession.messages) > 0

\* C10: when the only session of the list is deleted successfully, afterwards
\* the current session is none, no current-session id is persisted and the
\* opt-out flag is absent.
C10_DeleteOnlySession ==
    (last.kind = "deleted" /\ last.ok /\ Len(last.sessionsBefore) = 1
        /\ last.sessionsBefore[1].id = last.op.sessionId)
        => /\ currentSession = Null
           /\ ls_currentId = NoId
           /\ ~ls_noAuto

\* C11: after a send has succeeded with a response that signals a
\* summarization event, the current session's isSummarizing flag, as App hands
\* it to ChatArea, is true.
C11_SummarizingAfterSignal ==
    (last.kind = "sendDone" /\ last.ok /\ last.response.summarization_triggered)
        => IsSummarizing(currentSession)

FetchesInFlight == {i \in DOMAIN ops : ops[i].kind = "load" /\ ops[i].pc = "list"}

\* C12: at most one getUserSessions call is outstanding at any time, whatever
\* the sequence of authentication changes.
C12_SingleFetchInFlight == Cardinality(FetchesInFlight) <= 1

AutoCreatesPending == {i \in DOMAIN ops : ops[i].kind = "create" /\ ops[i].origin = "auto"}

\* C13: within one lifetime of the engine the initial-session effect calls
\* createNewSession at most once, and only together with setting the
\* hasAttemptedInitialSession latch, under every interleaving of mount,
\* authentication changes, load completions and user actions.
C13_AtMostOneInitialSession ==
    /\ autoCreateCount <= 1
    /\ autoCreateCount = 1 <=> hasAttemptedInitialSession
    /\ Cardinality(AutoCreatesPending) <= autoCreateCount

C13_Witness ==
    /\ last.kind = "loadList" /\ last.n = 0 /\ ~last.noAuto /\ last.currentBefore = Null
    /\ last.attempted /\ authFalls > 0
    /\ ~isLoadingSessions /\ Len(sessions) = 0 /\ currentSession = Null
    /\ autoCreateCount = 1

\* C14: right after the authentication signal has become false the session
\* list is empty, the current session is none, no current-session id is
\* persisted, and the opt-out flag is what it was before.
C14_SignOutClears ==
    last.kind = "authFalse"
        => /\ ~isAuthenticated
           /\ sessions = << >>
           /\ currentSession = Null
           /\ ls_currentId = NoId
           /\ ls_noAuto = last.before

C14_Witness ==
    last.kind = "authFalse" /\ last.full /\ last.before /\ sessions = << >>

LoadsPending == {i \in DOMAIN ops : ops[i].kind = "load"}

\* C15 as stated: when getUserSessions fails and a snapshot is stored, the
\* session list becomes the snapshot, the sessions taken from it carry no
\* messages, and isLoadingSessions is false.
C15_FallbackWithoutMessages ==
    (last.kind = "loadFail" /\ SnapshotUsable(last.saved))
        => /\ sessions = JSONParse(last.saved)
           /\ \A k \in DOMAIN sessions : sessions[k].messages = << >>
           /\ ~isLoadingSessions

\* C15 amended: when getUserSessions fails, loadSessions ends normally: the
\* session list becomes the snapshot when one is stored and parses, each entry
\* with the messages the snapshot recorded for it, and stays as it was
\* otherwise; no history call is started (the load is no longer pending), the current session is untouched,
\* and isLoadingSessions is false.
C15_FallbackToSnapshot ==
    last.kind = "loadFail"
        => /\ sessions = (IF SnapshotUsable(last.saved) THEN JSONParse(last.saved) ELSE last.before)
           /\ currentSession = last.currentBefore
           /\ Cardinality(LoadsPending) = last.loadsBefore - 1
           /\ ~isLoadingSessions

C15_Witness ==
    /\ last.kind = "loadFail" /\ SnapshotUsable(last.saved)
    /\ last.before # sessions
    /\ Len(sessions) > 0 /\ Len(sessions[1].messages) > 0
    /\ ~isLoadingSessions

\* C16: when getUserSessions fails and the stored snapshot does not parse, the
\* session list stays as it was, sessionsLoadedRef is true, isLoadingSessions
\* is false and loadSessions has ended (its call is no longer pending); the
\* snapshot is left as it is.
C16_CorruptSnapshotDiscarded ==
    (last.kind = "loadFail" /\ last.saved # Absent /\ ~JSONParseOk(last.saved))
        => /\ sessions = last.before
           /\ currentSession = last.currentBefore
           /\ sessionsLoadedRef
           /\ ~isLoadingSessions
           /\ Cardinality(LoadsPending) = last.loadsBefore - 1
           /\ ls_sessions = last.saved

C16_Witness ==
    /\ last.kind = "loadFail" /\ last.saved = Corrupt /\ ~last.refBefore
    /\ sessionsLoadedRef /\ ~isLoadingSessions

\* C17: sendMessage called while no session is current reports one error and
\* changes nothing: the session list, the current session, isLoading and the
\* three persisted items are what they were, and no remote call is started.
C17_SendWithoutSession ==
    last.kind = "sendRejected"
        => /\ last.errors = 1
           /\ sessions = last.sessionsBefore
           /\ currentSession = Null
           /\ isLoading = last.isLoadingBefore
           /\ ls_sessions = last.snapshotBefore
           /\ ls_currentId = last.idBefore
           /\ ls_noAuto = last.noAutoBefore
           /\ Len(ops) = last.opsBefore

C17_Witness ==
    last.kind = "sendRejected" /\ currentSession = Null /\ ~isLoading /\ ~isLoadingSessions

\* C18: a delete whose remote call fails leaves the session list, the current
\* session and the persisted current-session id as they were and notifies one
\* error; requesting a delete removes nothing, and an entry leaves the list by
\* a delete only when the remote call for it has succeeded.
C18_DeleteFailureKeepsState ==
    /\ (last.kind = "deleted" /\ ~last.ok)
          => /\ sessions = last.sessionsBefore
             /\ currentSession = last.currentBefore
             /\ ls_currentId = last.idBefore
             /\ last.errors = 1
    /\ last.kind = "delete" => Find(sessions, last.sessionId) # Null
    /\ (last.kind = "deleted" /\ last.ok)
          => /\ sessions = Filter(last.sessionsBefore, last.op.sessionId)
             /\ last.errors = 0

C18_Witness ==
    /\ last.kind = "deleted" /\ ~last.ok
    /\ currentSession # Null /\ currentSession.id = last.op.sessionId
    /\ Find(sessions, last.op.sessionId) # Null
    /\ ls_currentId = last.op.sessionId

\* C19: when a delete succeeds for the session that is current (when the
\* delete is requested and still when it completes), the current session
\* becomes the first session remaining in the list and its id is persisted;
\* when none remains the current session is none and no id is persisted.
C19_DeleteCurrentSelectsNext ==
    (last.kind = "deleted" /\ last.ok
        /\ DeletedIsCurrent(last.op.currentSession, last.op.sessionId)
        /\ DeletedIsCurrent(last.currentBefore, last.op.sessionId))
        => IF Len(sessions) > 0
           THEN currentSession # Null /\ currentSession.id = sessions[1].id
                /\ ls_currentId = sessions[1].id
           ELSE currentSession = Null /\ ls_currentId = NoId

\* C20: a step removes the opt-out flag only if it is handleNewChat or the
\* completion of a successful delete after which no session remains.
C20_OptOutRemovedOnlyBy ==
    [][(ls_noAuto /\ ~ls_noAuto')
          => \/ last'.kind = "newChat"
             \/ (last'.kind = "deleted" /\ last'.ok /\ Len(sessions') = 0)]_vars

\* C21: when a selectSession(s) call completes, s is the current session and
\* s.id is the persisted current-session id: with the messages of the history
\* answer (none when the answer carries no messages) when getSessionHistory
\* succeeded, and s exactly as passed when it failed; nothing is raised to the
\* caller.
C21_SelectAlwaysSelects ==
    last.kind = "selected"
        => /\ currentSession # Null
           /\ currentSession.id = last.session.id
           /\ ls_currentId = last.session.id
           /\ currentSession =
                 (IF last.ok
                  THEN [last.session EXCEPT !.messages =
                           IF last.response.has THEN last.response.messages ELSE << >>]
                  ELSE last.session)
           /\ ~last.raised

C21_Witness ==
    /\ last.kind = "selected" /\ last.ok
    /\ last.session.messages = << >>
    /\ Len(currentSession.messages) > 0
    /\ ls_currentId = last.session.id

\* C22: when createNewSession completes (called by the initial-session
\* effect, by handleNewChat or by the recovery of a send), a session without
\* messages has been put in front of the session list, is the current session
\* and its id is the persisted current-session id; the id is the one the remote
\* call assigned when it succeeded and a local `session-<time>` id when it
\* failed.
C22_CreateAlwaysCompletes ==
    /\ last.kind = "created"
          => /\ last.session.messages = << >>
             /\ last.session.id.src = (IF last.ok THEN "new" ELSE "session-")
             /\ sessions = <<last.session>> \o last.sessionsBefore
             /\ currentSession = last.session
             /\ ls_currentId = last.session.id
    /\ last.kind = "sendRetried"
          => LET newSession == last.op.replacements[Len(last.op.replacements)]
             IN /\ newSession.messages = << >>
                /\ newSession.id.src \in {"new", "session-"}
                /\ sessions = <<newSession>> \o last.sessionsBefore
                /\ currentSession = newSession
                /\ ls_currentId = newSession.id

C22_Witness ==
    /\ last.kind = "created" /\ ~last.ok
    /\ Len(last.sessionsBefore) > 0
    /\ currentSession = last.session
    /\ sessions[1] = last.session

\* C23: requestDetailed sends again the content of the last message with
\* role user of the current session, with request_detailed true, to the current
\* session; when no session is current or the current session holds no message
\* with role user, it changes nothing and starts no remote call.
C23_RequestDetailedReplays ==
    /\ (last.kind = "sendDispatched" /\ last.op.requestDetailed)
          => LET msgs == last.op.currentSession.messages
                 users == {k \in DOMAIN msgs : msgs[k].role = "user"}
             IN /\ users # {}
                /\ \E k \in users :
                      /\ \A m \in users : m <= k
                      /\ last.op.content = msgs[k].content
                /\ last.op.requests = <<[message |-> last.op.content,
                                         session_id |-> last.op.currentSession.id,
                                         request_detailed |-> TRUE]>>
    /\ last.kind = "detailedSkipped"
          => /\ \/ currentSession = Null
                \/ \A k \in DOMAIN currentSession.messages : currentSession.messages[k].role # "user"
             /\ sessions = last.sessionsBefore
             /\ currentSession = last.currentBefore
             /\ isLoading = last.isLoadingBefore
             /\ ls_sessions = last.snapshotBefore
             /\ ls_currentId = last.idBefore
             /\ ls_noAuto = last.noAutoBefore
             /\ Len(ops) = last.opsBefore

C23_Witness ==
    /\ last.kind = "sendDispatched" /\ last.op.requestDetailed
    /\ Len(last.op.currentSession.messages) >= 2
    /\ last.op.currentSession.messages[Len(last.op.currentSession.messages)].role = "assistant"
    /\ last.op.requests[1].request_detailed

C23_WitnessSkipped ==
    last.kind = "detailedSkipped" /\ currentSession # Null /\ currentSession.messages = << >>

\* C24: when selectSession(A) was dispatched before selectSession(B), B's
\* history arrives while A's is still awaited and A's arrives next, then after
\* both have completed B is the current session and B's id is the persisted
\* current-session id.
C24_SelectsInDispatchOrder ==
    [][(/\ last.kind = "selected"
        /\ last'.kind = "selected"
        /\ last'.session \in last.earlier
        /\ last'.session.id # last.session.id)
          => /\ currentSession' # Null
             /\ currentSession'.id = last.session.id
             /\ ls_currentId' = last.session.id]_vars

\* C25: after a send has completed (with success or with failure, no other
\* step in between), the session-list entry with the current session's id has
\* the messages and the title of the current session.
C25_ListMatchesCurrentAfterSend ==
    (last.kind = "sendDone" /\ last.op.clean /\ currentSession # Null)
        => \A k \in DOMAIN sessions :
              sessions[k].id = currentSession.id
                  => /\ sessions[k].messages = currentSession.messages
                     /\ sessions[k].title = currentSession.title

\* C26: when a send succeeds with no other step in between, the current
\* session's messages are the messages it had before the send, then the user
\* message with the content sent, then the assistant message built from the
\* response (content, timestamp, memory_used), and isLoading is false.
C26_SendAppendsBoth ==
    (last.kind = "sendDone" /\ last.ok /\ last.op.clean)
        => LET before == last.op.currentSession.messages
               n == Len(before)
           IN /\ currentSession # Null
              /\ Len(currentSession.messages) = n + 2
              /\ SubSeq(currentSession.messages, 1, n) = before
              /\ currentSession.messages[n + 1].role = "user"
              /\ currentSession.messages[n + 1].content = last.op.content
              /\ currentSession.messages[n + 2] =
                    [role |-> "assistant", content |-> last.response.response,
                     timestamp |-> last.response.timestamp, memory_used |-> last.response.memory_used]
              /\ ~isLoading

C26_Witness ==
    /\ last.kind = "sendDone" /\ last.ok /\ last.op.clean
    /\ Len(last.op.currentSession.messages) = 2
    /\ Len(currentSession.messages) = 4
    /\ ~isLoading

\* C27: after a successful send (no other step in between) the current
\* session's messageCount is the count the response reports when it reports
\* one, and the length of the local message list otherwise.
C27_ServerMessageCount ==
    (last.kind = "sendDone" /\ last.ok /\ last.op.clean)
        => currentSession.messageCount =
              (IF last.response.has_count THEN last.response.message_count
               ELSE Len(currentSession.messages))

\* C28: when a load fetched a non-empty list and read a persisted
\* current-session id that was absent or named none of the fetched sessions,
\* the session it makes current is a fetched session whose lastActivity is at
\* least that of every fetched session, a non-matching persisted id is removed
\* when the list arrives, and once the load has ended the persisted
\* current-session id is the id of that session.
C28_MostRecentWhenNotRestored ==
    /\ (last.kind = "loadList" /\ last.n > 0
            /\ Find(MapRows(last.rows), last.persisted) = Null)
          => /\ \E k \in DOMAIN last.rows : last.rows[k].id = last.target.id
             /\ \A k \in DOMAIN last.rows : last.rows[k].last_activity <= last.target.lastActivity
             /\ ls_currentId = NoId
    /\ (last.kind = "loadHistory" /\ Find(MapRows(last.op.rows), last.op.persisted) = Null)
          => /\ \E k \in DOMAIN last.op.rows : last.op.rows[k].id = last.op.target.id
             /\ \A k \in DOMAIN last.op.rows : last.op.rows[k].last_activity <= last.op.target.lastActivity
             /\ currentSession # Null
             /\ currentSession.id = last.op.target.id
             /\ ls_currentId = last.op.target.id

C28_Witness ==
    /\ last.kind = "loadHistory"
    /\ last.op.persisted # NoId
    /\ Find(MapRows(last.op.rows), last.op.persisted) = Null
    /\ Len(last.op.rows) = 3
    /\ last.op.rows[1].last_activity < last.op.target.lastActivity
    /\ ls_currentId = last.op.target.id

\* what C29 states about the states: right after a send is dispatched, and as
\* long as its first remote call is pending with no other step in between, the
\* current session is the session with the user message appended, the list
\* entry with its id holds the same messages, and the stored snapshot is the
\* session list
C29_AppendVisible ==
    /\ last.kind = "sendDispatched"
          => /\ currentSession = last.op.updatedSession
             /\ Len(currentSession.messages) = Len(last.op.currentSession.messages) + 1
             /\ currentSession.messages[Len(currentSession.messages)].role = "user"
             /\ currentSession.messages[Len(currentSession.messages)].content = last.op.content
             /\ \A k \in DOMAIN sessions :
                   sessions[k].id = currentSession.id => sessions[k].messages = currentSession.messages
             /\ \E i \in DOMAIN ops : ops[i] = last.op /\ Len(ops[i].requests) = 1
    /\ \A i \in DOMAIN ops :
          (ops[i].kind = "send" /\ ops[i].pc = "first" /\ ops[i].clean)
              => currentSession = ops[i].updatedSession
    /\ mounted => ls_sessions = JSONStringify(sessions)

\* C29: in every send the user message is appended to the current session and
\* to its list entry by the step that dispatches the remote call, so it is in
\* place before any answer arrives; and every step that writes the snapshot
\* writes the session list as that step leaves it.
C29_AppendThenDispatchThenMirror ==
    /\ []C29_AppendVisible
    /\ [][ls_sessions' # ls_sessions => ls_sessions' = JSONStringify(sessions')]_vars

C29_Witness ==
    /\ last.kind = "sendDispatched"
    /\ \E k \in DOMAIN sessions :
          sessions[k].id = currentSession.id /\ Len(sessions[k].messages) = 3
    /\ ls_sessions = JSONStringify(sessions)

\* C30: the current-session id that an earlier lifetime left stored is still
\* stored after the mount of the next lifetime (authenticated false), so that
\* the first authenticated load can read it.
C30_PersistedIdSurvivesMount ==
    (last.kind = "mount" /\ ~isAuthenticated) => ls_currentId = last.idBefore

\* C31: a non-empty session snapshot that an earlier lifetime left stored is
\* still stored, unmodified, after the mount of the next lifetime, so that a
\* failing first load can read it as its fallback.
C31_SnapshotSurvivesMount ==
    (last.kind = "mount" /\ JSONParseOk(last.snapshotBefore) /\ Len(JSONParse(last.snapshotBefore)) > 0)
        => ls_sessions = last.snapshotBefore

\* C32: in every state in which the engine is mounted and authenticated is
\* false, the session list is empty, the current session is none and no
\* current-session id is persisted, also after a call started while
\* authenticated has completed.
C32_SignedOutStaysEmpty ==
    (mounted /\ ~isAuthenticated)
        => /\ sessions = << >>
           /\ currentSession = Null
           /\ ls_currentId = NoId

\* C33: no step starts the automatic creation of the initial session while
\* authenticated is false.
C33_NoAutoCreateSignedOut ==
    [][autoCreateCount' > autoCreateCount => isAuthenticated']_vars

\* C34: whenever no remote call is pending and a session is current (the user
\* signed in), the persisted current-session id is the current session's id.
C34_PersistedIdIsCurrent ==
    (mounted /\ isAuthenticated /\ ops = << >> /\ currentSession # Null)
        => ls_currentId = currentSession.id

\* C35: applying the result of a send (the response or the rollback) while a
\* session is current (the user signed in) leaves the id of the current
\* session as it was immediately before, also when
\* another session was selected or a replacement was created while the send
\* was under way.
C35_SendKeepsCurrent ==
    (last.kind = "sendDone" /\ isAuthenticated /\ last.currentBefore # Null)
        => currentSession # Null /\ currentSession.id = last.currentBefore.id

\* C36: whenever no remote call is pending (the user signed in), a current
\* session has its id in the session list.
C36_CurrentIsListed ==
    (mounted /\ isAuthenticated /\ ops = << >> /\ currentSession # Null)
        => Find(sessions, currentSession.id) # Null

\* C37: when a send fails after another session has become current, the
\* rollback leaves that session's messages as they were.
C37_RollbackOnlyOwnMessage ==
    (last.kind = "sendDone" /\ ~last.ok /\ last.currentBefore # Null
        /\ last.currentBefore.id # last.op.currentSession.id)
        => /\ currentSession # Null
           /\ currentSession.messages = last.currentBefore.messages

\* C38: when two sends into the same session overlap and both succeed (the
\* second response applied right after the first), the current session's
\* messages hold the user messages of both sends and an assistant message for
\* each.
C38_OverlappingSendsKeepAll ==
    [][(/\ last.kind = "sendDone" /\ last.ok
        /\ last'.kind = "sendDone" /\ last'.ok
        /\ Pop(last'.op.updatedSession.messages) \in last.overlapping
        /\ last'.op.currentSession.id = last.op.currentSession.id)
          => LET m == currentSession'.messages
             IN /\ \E k \in DOMAIN m : m[k] = Pop(last.op.updatedSession.messages)
                /\ \E k \in DOMAIN m : m[k] = Pop(last'.op.updatedSession.messages)
                /\ Cardinality({k \in DOMAIN m : m[k].role = "assistant"}) >= 2]_vars

\* C39: a delete of a session other than the session that is current when the
\* remote delete completes (the user signed in) leaves the current session and the persisted
\* current-session id as they were, also when the session was current when the
\* delete was requested.
C39_DeleteOtherKeepsCurrent ==
    (last.kind = "deleted" /\ isAuthenticated /\ last.currentBefore # Null
        /\ ~DeletedIsCurrent(last.currentBefore, last.op.sessionId))
        => /\ currentSession = last.currentBefore
           /\ ls_currentId = last.idBefore

\* what C40 states about sessions loading: from every state in which the
\* engine is mounted and authenticated is true, a state follows in which
\* isLoadingSessions is false (or authenticated is no longer true)
C40_SessionsLoadingEnds ==
    (mounted /\ isAuthenticated) ~> (~isLoadingSessions \/ ~isAuthenticated \/ ~mounted)

\* what C40 states about sends: after every dispatch of a send, a state
\* follows in which isLoading is false
C40_SendLoadingEnds ==
    (last.kind = "sendDispatched") ~> ~isLoading

\* C40: provided every remote call eventually returns or fails, after
\* authenticated has become true and stays true isLoadingSessions eventually
\* becomes false, and after every sendMessage with a current session
\* isLoading eventually becomes false.
C40_LoadingFlagsEnd ==
    /\ C40_SessionsLoadingEnds
    /\ C40_SendLoadingEnds

====
